---------------------------- MODULE Spec2Model ----------------------------
(***************************************************************************)
(* FloatChat (src/floatchat.py): a Streamlit script.  The model covers the *)
(* keyword query processor process_nl_query, the memoised mock data        *)
(* generator generate_mock_argo_data, and the two submission handlers      *)
(* (sidebar example buttons, chat input) that append to                    *)
(* st.session_state.chat_history and call st.rerun().                      *)
(*                                                                         *)
(* A query is a sequence of characters; a character is a one-letter string *)
(* except the two non-ASCII letters "long_s" (U+017F) and "dotless_i"      *)
(* (U+0131), which str.lower() leaves alone and str.upper() maps to S, I.  *)
(***************************************************************************)
EXTENDS Integers, Sequences, FiniteSets, TLC

VARIABLES
    now,                \* datetime.now(), in days
    cache,              \* the @st.cache_data entry of generate_mock_argo_data
    has_chat_history,   \* 'chat_history' in st.session_state
    chat_history,       \* st.session_state.chat_history
    floats_df,          \* module-level floats_df of the latest script run
    profiles_df,        \* module-level profiles_df of the latest script run
    rerun_requested,    \* st.rerun() was called and the rerun has not run yet
    query,              \* the argument of the latest process_nl_query call
    response,           \* the value of the latest process_nl_query call
    submissions,        \* history: submissions handled in this session
    body_executed,      \* history: the latest run executed the generator body
    run_started,        \* history: value of now when the latest run started
    generated_at        \* history: the times at which the generator body ran

vars == <<now, cache, has_chat_history, chat_history, floats_df, profiles_df,
          rerun_requested, query, response, submissions, body_executed,
          run_started, generated_at>>

(***************************************************************************)
(* Bounds                                                                  *)
(***************************************************************************)
MaxWords == 2           \* words concatenated into one query
MaxSubmissions == 2     \* submissions per session
MaxTime == 2            \* days the clock advances

(***************************************************************************)
(* Sequence helpers                                                        *)
(***************************************************************************)
Min(S) == CHOOSE x \in S : \A y \in S : x <= y

\* Python's `sub in s` for strings.
Contains(sub, s) ==
    \E i \in 0..(Len(s) - Len(sub)) : SubSeq(s, i + 1, i + Len(sub)) = sub

(***************************************************************************)
(* str.lower() and str.upper(), character by character                     *)
(***************************************************************************)
UpperToLower ==
    [c \in {"A","B","C","D","E","F","G","H","I","J","K","L","M","N","O","P",
            "Q","R","S","T","U","V","W","X","Y","Z"} |->
        CASE c = "A" -> "a" [] c = "B" -> "b" [] c = "C" -> "c"
          [] c = "D" -> "d" [] c = "E" -> "e" [] c = "F" -> "f"
          [] c = "G" -> "g" [] c = "H" -> "h" [] c = "I" -> "i"
          [] c = "J" -> "j" [] c = "K" -> "k" [] c = "L" -> "l"
          [] c = "M" -> "m" [] c = "N" -> "n" [] c = "O" -> "o"
          [] c = "P" -> "p" [] c = "Q" -> "q" [] c = "R" -> "r"
          [] c = "S" -> "s" [] c = "T" -> "t" [] c = "U" -> "u"
          [] c = "V" -> "v" [] c = "W" -> "w" [] c = "X" -> "x"
          [] c = "Y" -> "y" [] c = "Z" -> "z"]

AsciiUpper == DOMAIN UpperToLower
AsciiLower == {UpperToLower[c] : c \in AsciiUpper}
AsciiLetters == AsciiUpper \cup AsciiLower

lower_char(c) == IF c \in AsciiUpper THEN UpperToLower[c] ELSE c

upper_char(c) ==
    IF c \in AsciiLower THEN CHOOSE u \in AsciiUpper : UpperToLower[u] = c
    ELSE IF c = "long_s" THEN "S"
    ELSE IF c = "dotless_i" THEN "I"
    ELSE c

\* A plausible slip: the checks run on the query as typed.
lower_missing(s) == s

\* query.lower()
lower(s) == [i \in 1..Len(s) |-> lower_char(s[i])]

(***************************************************************************)
(* process_nl_query                                                        *)
(***************************************************************************)
None == "<None>"

kw_temperature == <<"t","e","m","p","e","r","a","t","u","r","e">>
kw_temp        == <<"t","e","m","p">>
kw_salinity    == <<"s","a","l","i","n","i","t","y">>
kw_float       == <<"f","l","o","a","t">>
kw_location    == <<"l","o","c","a","t","i","o","n">>
kw_map         == <<"m","a","p">>
kw_compare     == <<"c","o","m","p","a","r","e">>
kw_ts          == <<"t","s">>

TemperatureResponse ==
    [text |-> "Temperature profile from ARGO float WMO2902756 shows tropical ocean stratification with warm surface waters decreasing to cold deep waters.",
     viz_type |-> "temperature"]

SalinityResponse ==
    [text |-> "Salinity profile shows subsurface maximum around 200m depth, characteristic of Arabian Sea water masses.",
     viz_type |-> "salinity"]

MapResponse ==
    [text |-> "Found 5 ARGO floats in the Indian Ocean region. Active floats are shown on the map.",
     viz_type |-> "map"]

CompareResponse ==
    [text |-> "T-S diagram comparing temperature and salinity helps identify different water masses.",
     viz_type |-> "compare"]

FallbackResponse ==
    [text |-> "Try asking: Show temperature profiles, Find floats near coordinates, or Compare salinity data.",
     viz_type |-> None]

\* A plausible slip: the compare branch was pasted from the salinity branch and only
\* its viz_type was changed.
process_nl_query_pasted_text(q) ==
    LET query_lower == lower(q) IN
    IF Contains(kw_temperature, query_lower) \/ Contains(kw_temp, query_lower)
    THEN TemperatureResponse
    ELSE IF Contains(kw_salinity, query_lower)
    THEN SalinityResponse
    ELSE IF Contains(kw_float, query_lower) \/ Contains(kw_location, query_lower)
            \/ Contains(kw_map, query_lower)
    THEN MapResponse
    ELSE IF Contains(kw_compare, query_lower) \/ Contains(kw_ts, query_lower)
    THEN [text |-> SalinityResponse.text, viz_type |-> "compare"]
    ELSE FallbackResponse

\* A plausible slip: the compare branch is tested before the salinity branch.
process_nl_query_reordered(q) ==
    LET query_lower == lower(q) IN
    IF Contains(kw_temperature, query_lower) \/ Contains(kw_temp, query_lower)
    THEN TemperatureResponse
    ELSE IF Contains(kw_compare, query_lower) \/ Contains(kw_ts, query_lower)
    THEN CompareResponse
    ELSE IF Contains(kw_salinity, query_lower)
    THEN SalinityResponse
    ELSE IF Contains(kw_float, query_lower) \/ Contains(kw_location, query_lower)
            \/ Contains(kw_map, query_lower)
    THEN MapResponse
    ELSE FallbackResponse

\* A plausible slip: the compare branch tests 'compare' only.
process_nl_query_no_ts(q) ==
    LET query_lower == lower(q) IN
    IF Contains(kw_temperature, query_lower) \/ Contains(kw_temp, query_lower)
    THEN TemperatureResponse
    ELSE IF Contains(kw_salinity, query_lower)
    THEN SalinityResponse
    ELSE IF Contains(kw_float, query_lower) \/ Contains(kw_location, query_lower)
            \/ Contains(kw_map, query_lower)
    THEN MapResponse
    ELSE IF Contains(kw_compare, query_lower)
    THEN CompareResponse
    ELSE FallbackResponse

\* A plausible slip: the map branch tests 'location' and 'map' only, and the compare
\* branch tests 'compare' only.
process_nl_query_no_float(q) ==
    LET query_lower == lower(q) IN
    IF Contains(kw_temperature, query_lower) \/ Contains(kw_temp, query_lower)
    THEN TemperatureResponse
    ELSE IF Contains(kw_salinity, query_lower)
    THEN SalinityResponse
    ELSE IF Contains(kw_location, query_lower) \/ Contains(kw_map, query_lower)
    THEN MapResponse
    ELSE IF Contains(kw_compare, query_lower)
    THEN CompareResponse
    ELSE FallbackResponse

process_nl_query(q) ==
    LET query_lower == lower(q) IN
    IF Contains(kw_temperature, query_lower) \/ Contains(kw_temp, query_lower)
    THEN TemperatureResponse
    ELSE IF Contains(kw_salinity, query_lower)
    THEN SalinityResponse
    ELSE IF Contains(kw_float, query_lower) \/ Contains(kw_location, query_lower)
            \/ Contains(kw_map, query_lower)
    THEN MapResponse
    ELSE IF Contains(kw_compare, query_lower) \/ Contains(kw_ts, query_lower)
    THEN CompareResponse
    ELSE FallbackResponse

(***************************************************************************)
(* The queries the model draws from                                        *)
(***************************************************************************)
\* examples, the sidebar 'Query Examples' button labels
examples ==
    << <<"S","h","o","w"," ","t","e","m","p","e","r","a","t","u","r","e"," ",
         "p","r","o","f","i","l","e","s">>,
       <<"F","i","n","d"," ","f","l","o","a","t","s"," ","n","e","a","r"," ",
         "e","q","u","a","t","o","r">>,
       <<"C","o","m","p","a","r","e"," ","s","a","l","i","n","i","t","y"," ",
         "d","a","t","a">>,
       <<"M","a","p"," ","a","c","t","i","v","e"," ","f","l","o","a","t","s">> >>

\* The three queries the fallback text names.
FallbackSuggestions ==
    { <<"S","h","o","w"," ","t","e","m","p","e","r","a","t","u","r","e"," ",
        "p","r","o","f","i","l","e","s">>,
      <<"F","i","n","d"," ","f","l","o","a","t","s"," ","n","e","a","r"," ",
        "c","o","o","r","d","i","n","a","t","e","s">>,
      <<"C","o","m","p","a","r","e"," ","s","a","l","i","n","i","t","y"," ",
        "d","a","t","a">> }

ProposedQueries == {examples[i] : i \in 1..Len(examples)} \cup FallbackSuggestions

\* Words a typed query is concatenated from: the keywords, case variants of
\* them (ASCII and not), a space and a fragment of an unrelated word.
Words ==
    { kw_temperature, kw_temp, kw_salinity, kw_float, kw_location, kw_map,
      kw_compare, kw_ts,
      <<"T","E","M","P">>,
      <<"S","A","L","I","N","I","T","Y">>,
      <<"T","S">>,
      <<"t","long_s">>,
      <<"s","a","l","dotless_i","n","dotless_i","t","y">>,
      <<" ">>,
      <<"c","h","a">> }

RECURSIVE Concatenations(_)
Concatenations(n) ==
    IF n = 0 THEN { <<>> }
    ELSE LET shorter == Concatenations(n - 1)
         IN  shorter \cup {s \o w : s \in shorter, w \in Words}

Queries == Concatenations(MaxWords) \cup ProposedQueries

\* What a user types into the chat box of the application model.
ChatInputs ==
    { <<>>, <<" ">>, <<"h","e","l","l","o">>, <<"c","h","a","t","s">>,
      <<"T","E","M","P">>, examples[3] }

(***************************************************************************)
(* generate_mock_argo_data and its @st.cache_data memoisation              *)
(***************************************************************************)
NoEntry == [empty |-> TRUE]
NoData == [absent |-> TRUE]

\* pd.date_range(end=t, periods=5, freq='D')
date_range(t) == [i \in 1..5 |-> t - (5 - i)]

\* The body of generate_mock_argo_data, executed at time t.
generate_mock_argo_data(t) ==
    [floats |->
        [float_id |-> <<"WMO2902756", "WMO2902757", "WMO2902758",
                        "WMO2902759", "WMO2902760">>,
         last_update |-> date_range(t),
         status |-> <<"active", "active", "active", "active", "inactive">>,
         profiles_count |-> <<145, 132, 167, 89, 201>>],
     profiles |->
        [depth |-> <<0, 50, 100, 200, 500, 1000, 1500, 2000>>]]

\* A plausible slip: the function is not memoised.
cache_data_uncached(c, t) ==
    [hit |-> FALSE, value |-> generate_mock_argo_data(t)]

\* @st.cache_data on a function without arguments: one entry, filled by the
\* first call and returned by every later call.
cache_data(c, t) ==
    IF c # NoEntry
    THEN [hit |-> TRUE, value |-> c]
    ELSE [hit |-> FALSE, value |-> generate_mock_argo_data(t)]

(***************************************************************************)
(* Session state and the two submission handlers                           *)
(***************************************************************************)
Welcome ==
    [role |-> "assistant",
     content |-> "Welcome to ARGO Float Data Explorer! Ask me about oceanographic data."]

\* if 'chat_history' not in st.session_state: ...
InitialisedHistory ==
    IF has_chat_history THEN chat_history ELSE <<Welcome>>

\* A plausible slip: the assistant's answer is not recorded.
ChatInputHandler_user_only(history, user_input) ==
    Append(history, [role |-> "user", content |-> user_input])

\* The body of `if st.button(example, ...)`, up to st.rerun().
ButtonHandler(history, example) ==
    Append(Append(history, [role |-> "user", content |-> example]),
           [role |-> "assistant", content |-> process_nl_query(example).text])

\* The body of `if user_input:`, up to st.rerun().
ChatInputHandler(history, user_input) ==
    Append(Append(history, [role |-> "user", content |-> user_input]),
           [role |-> "assistant", content |-> process_nl_query(user_input).text])

\* Python truthiness of st.chat_input's value (None or a string).
Truthy(user_input) == user_input # None /\ user_input # <<>>

NoResponse == [text |-> "", viz_type |-> "<unset>"]

(***************************************************************************)
(* One execution of the script, top to bottom.  clicked is the index of    *)
(* the example button whose click triggered the run (0: none); user_input  *)
(* is the value of st.chat_input in this run.                              *)
(***************************************************************************)
ScriptRun(clicked, user_input) ==
    LET history == InitialisedHistory
        loaded == cache_data(cache, now)
    IN  /\ has_chat_history' = TRUE
        /\ cache' = loaded.value
        /\ floats_df' = loaded.value.floats
        /\ profiles_df' = loaded.value.profiles
        /\ body_executed' = ~loaded.hit
        /\ generated_at' = IF loaded.hit THEN generated_at
                           ELSE generated_at \cup {now}
        /\ run_started' = now
        /\ IF clicked # 0
           THEN /\ chat_history' = ButtonHandler(history, examples[clicked])
                /\ query' = examples[clicked]
                /\ response' = process_nl_query(examples[clicked])
                /\ submissions' = submissions + 1
                /\ rerun_requested' = TRUE
           ELSE IF Truthy(user_input)
           THEN /\ chat_history' = ChatInputHandler(history, user_input)
                /\ query' = user_input
                /\ response' = process_nl_query(user_input)
                /\ submissions' = submissions + 1
                /\ rerun_requested' = TRUE
           ELSE /\ chat_history' = history
                /\ rerun_requested' = FALSE
                /\ UNCHANGED <<query, response, submissions>>
        /\ UNCHANGED now

\* The page is opened, or a widget other than the buttons and the chat box
\* changes: a run in which no button is clicked and chat_input is None.
PlainRun ==
    /\ ~rerun_requested
    /\ ScriptRun(0, None)

\* The run st.rerun() asked for.
Rerun ==
    /\ rerun_requested
    /\ ScriptRun(0, None)

ClickExample(i) ==
    /\ has_chat_history
    /\ ~rerun_requested
    /\ submissions < MaxSubmissions
    /\ ScriptRun(i, None)

ChatSubmit(t) ==
    /\ has_chat_history
    /\ ~rerun_requested
    /\ submissions < MaxSubmissions
    /\ ScriptRun(0, t)

\* The browser tab is reloaded: a new session with an empty session state;
\* the cache belongs to the server process and stays.
NewSession ==
    /\ has_chat_history
    /\ ~rerun_requested
    /\ has_chat_history' = FALSE
    /\ chat_history' = <<>>
    /\ submissions' = 0
    /\ UNCHANGED <<now, cache, floats_df, profiles_df, rerun_requested, query,
                   response, body_executed, run_started, generated_at>>

Tick ==
    /\ now < MaxTime
    /\ now' = now + 1
    /\ UNCHANGED <<cache, has_chat_history, chat_history, floats_df,
                   profiles_df, rerun_requested, query, response, submissions,
                   body_executed, run_started, generated_at>>

Init ==
    /\ now = 0
    /\ cache = NoEntry
    /\ has_chat_history = FALSE
    /\ chat_history = <<>>
    /\ floats_df = NoData
    /\ profiles_df = NoData
    /\ rerun_requested = FALSE
    /\ query = <<>>
    /\ response = NoResponse
    /\ submissions = 0
    /\ body_executed = FALSE
    /\ run_started = -1
    /\ generated_at = {}

Next ==
    \/ PlainRun
    \/ Rerun
    \/ \E i \in 1..Len(examples) : ClickExample(i)
    \/ \E t \in ChatInputs : ChatSubmit(t)
    \/ NewSession
    \/ Tick

Spec == Init /\ [][Next]_vars

(***************************************************************************)
(* process_nl_query on its own: the query is drawn from Queries and the    *)
(* function is applied to it once.                                         *)
(***************************************************************************)
InitQuery ==
    /\ query \in Queries
    /\ response = NoResponse
    /\ now = 0
    /\ cache = NoEntry
    /\ has_chat_history = FALSE
    /\ chat_history = <<>>
    /\ floats_df = NoData
    /\ profiles_df = NoData
    /\ rerun_requested = FALSE
    /\ submissions = 0
    /\ body_executed = FALSE
    /\ run_started = -1
    /\ generated_at = {}

ApplyQuery ==
    /\ response = NoResponse
    /\ response' = process_nl_query(query)
    /\ UNCHANGED <<now, cache, has_chat_history, chat_history, floats_df,
                   profiles_df, rerun_requested, query, submissions,
                   body_executed, run_started, generated_at>>

NextQuery == ApplyQuery

SpecQuery == InitQuery /\ [][NextQuery]_vars

(***************************************************************************)
(* Properties of process_nl_query (checked under SpecQuery)                *)
(***************************************************************************)
Applied == response # NoResponse

CannedResponses ==
    { TemperatureResponse, SalinityResponse, MapResponse, CompareResponse,
      FallbackResponse }

\* C1: process_nl_query answers every query with one of exactly five fixed
\* (text, viz_type) pairs, whose viz_type is 'temperature', 'salinity',
\* 'map', 'compare' or None, and the text is the one that belongs to the
\* viz_type, whatever else the query holds.
C1_FiveCannedResponses ==
    Applied =>
        /\ response \in CannedResponses
        /\ response.viz_type \in {"temperature", "salinity", "map", "compare", None}
        /\ \A r \in CannedResponses :
              r.viz_type = response.viz_type => r.text = response.text
        /\ Cardinality({r.viz_type : r \in CannedResponses}) = 5

C1_Witness ==
    /\ Applied
    /\ query = kw_map \o kw_location
    /\ response = MapResponse

\* The keyword groups in their priority order, and the viz_type of each.
GroupKeywords ==
    << {kw_temperature, kw_temp},
       {kw_salinity},
       {kw_float, kw_location, kw_map},
       {kw_compare, kw_ts} >>

GroupViz == <<"temperature", "salinity", "map", "compare">>

GroupsPresent(q) ==
    {g \in 1..4 : \E k \in GroupKeywords[g] : Contains(k, lower(q))}

\* C2: the first matching group wins, in the order temperature, salinity,
\* map, compare: a query holding keywords of several groups gets the
\* response of the highest-priority group present; one holding 'compare'
\* and 'salinity' gets the salinity response.
C2_FirstMatchWins ==
    Applied =>
        /\ GroupsPresent(query) # {} =>
              response.viz_type = GroupViz[Min(GroupsPresent(query))]
        /\ (Contains(kw_compare, lower(query)) /\ Contains(kw_salinity, lower(query))
            /\ ~Contains(kw_temp, lower(query)))
              => response = SalinityResponse

C2_Witness ==
    /\ Applied
    /\ Contains(kw_compare, lower(query))
    /\ Contains(kw_salinity, lower(query))
    /\ Cardinality(GroupsPresent(query)) >= 2
    /\ response = SalinityResponse

FallbackSubstrings ==
    {kw_temp, kw_salinity, kw_float, kw_location, kw_map, kw_compare, kw_ts}

\* C3: the fallback response is returned exactly when the lower-cased query
\* holds none of 'temp', 'salinity', 'float', 'location', 'map', 'compare',
\* 'ts'; a query that holds 'ts' and none of the other six gets the compare
\* response, and the empty query gets the fallback.
C3_FallbackIffNoKeyword ==
    Applied =>
        /\ (response = FallbackResponse
              <=> \A k \in FallbackSubstrings : ~Contains(k, lower(query)))
        /\ (response.viz_type = None <=> response = FallbackResponse)
        /\ (Contains(kw_ts, lower(query))
            /\ \A k \in FallbackSubstrings \ {kw_ts} : ~Contains(k, lower(query)))
              => response = CompareResponse
        /\ query = <<>> => response = FallbackResponse

C3_Witness ==
    /\ Applied
    /\ query = <<"c","h","a","t","s">>
    /\ response = CompareResponse

C3_EmptyWitness ==
    /\ Applied
    /\ query = <<>>
    /\ response = FallbackResponse

\* C5: each of the four sidebar example labels and each of the three
\* queries the fallback text names gets a response whose viz_type is not
\* None.
C5_ProposedQueriesAnswered ==
    (Applied /\ query \in ProposedQueries) => response.viz_type # None

C5_Witness ==
    /\ Applied
    /\ query = examples[2]
    /\ response = MapResponse

\* Two characters are the same letter in different case when one is the
\* str.upper() or the str.lower() of the other.
SameLetter(a, b) ==
    \/ a = b
    \/ a = upper_char(b) \/ b = upper_char(a)
    \/ a = lower_char(b) \/ b = lower_char(a)

DifferOnlyInCase(p, q) ==
    /\ Len(p) = Len(q)
    /\ \A i \in 1..Len(p) : SameLetter(p[i], q[i])

DifferOnlyInAsciiCase(p, q) ==
    /\ Len(p) = Len(q)
    /\ \A i \in 1..Len(p) :
          \/ p[i] = q[i]
          \/ /\ p[i] \in AsciiLetters
             /\ q[i] \in AsciiLetters
             /\ lower_char(p[i]) = lower_char(q[i])

\* C7 as stated: any two queries that differ only in the case of their
\* letters get the same response.
C7_CaseInsensitive ==
    Applied =>
        \A q2 \in Queries :
            DifferOnlyInCase(query, q2) => process_nl_query(q2) = response

\* C7 as amended: any two queries that differ only in the case of their
\* ASCII letters (A-Z, a-z) get the same response.
C7_AsciiCaseInsensitive ==
    Applied =>
        \A q2 \in Queries :
            DifferOnlyInAsciiCase(query, q2) => process_nl_query(q2) = response

C7_Witness ==
    /\ Applied
    /\ query = <<"T","E","M","P">> \o kw_salinity
    /\ kw_temp \o <<"S","A","L","I","N","I","T","Y">> \in Queries
    /\ DifferOnlyInAsciiCase(query, kw_temp \o <<"S","A","L","I","N","I","T","Y">>)
    /\ response = TemperatureResponse

(***************************************************************************)
(* Properties of the application (checked under Spec)                      *)
(***************************************************************************)
HasRun == floats_df # NoData

\* C4 as stated: the tables a run uses were produced by executing the
\* generator body during that run, so their last_update dates end at the
\* time of that run.
C4_GeneratedOnEachRun ==
    HasRun =>
        /\ body_executed
        /\ floats_df.last_update[5] = run_started

\* C4 as amended: the generator body is executed by the first run only (the
\* one that finds the cache empty); every run uses the tables of that one
\* execution, whose last_update dates end at the time of that first run.
C4_GeneratedOnceThenCached ==
    HasRun =>
        /\ cache = [floats |-> floats_df, profiles |-> profiles_df]
        /\ floats_df = generate_mock_argo_data(floats_df.last_update[5]).floats
        /\ generated_at = {floats_df.last_update[5]}
        /\ floats_df.last_update[5] <= run_started
        /\ body_executed => floats_df.last_update[5] = run_started

C4_Witness ==
    /\ HasRun
    /\ ~body_executed
    /\ has_chat_history
    /\ submissions = 1
    /\ floats_df.last_update[5] = 0
    /\ run_started = 2

Entry(role, content) == [role |-> role, content |-> content]

SubmissionEntries(t) ==
    <<Entry("user", t), Entry("assistant", process_nl_query(t).text)>>

C6_Count ==
    has_chat_history =>
        /\ Len(chat_history) = 1 + 2 * submissions
        /\ chat_history[1] = Welcome

C6_Step ==
    /\ \A i \in 1..Len(examples) :
          ClickExample(i) =>
              /\ chat_history' = chat_history \o SubmissionEntries(examples[i])
              /\ rerun_requested'
    /\ \A t \in ChatInputs :
          ChatSubmit(t) =>
              IF t # <<>>
              THEN /\ chat_history' = chat_history \o SubmissionEntries(t)
                   /\ rerun_requested'
              ELSE /\ chat_history' = chat_history
                   /\ ~rerun_requested'
    /\ Rerun => (chat_history' = chat_history /\ ~rerun_requested')
    /\ (PlainRun /\ has_chat_history) => chat_history' = chat_history
    /\ (PlainRun /\ ~has_chat_history) => chat_history' = <<Welcome>>

\* C6: a click on the example button labelled t, or a non-empty chat input
\* t, appends exactly the two entries {user, t} and {assistant, text of
\* process_nl_query(t)} and asks for a rerun; the rerun, and a run without
\* click or input, append nothing; so after n submissions the history holds
\* the welcome message and 2n entries.
C6_ExactlyOncePerSubmission == []C6_Count /\ [][C6_Step]_vars

C6_Witness ==
    /\ has_chat_history
    /\ ~rerun_requested
    /\ submissions = 2
    /\ chat_history =
          <<Welcome>> \o SubmissionEntries(examples[3])
                      \o SubmissionEntries(<<"c","h","a","t","s">>)

====
